---- MODULE Spec2Model ----
(***************************************************************************)
(* Live execution loop of catalyst's ExchangeTradingAlgorithmLive          *)
(* (catalyst/exchange/exchange_algorithm.py): the per-tick handle_data     *)
(* wrapper with its retry-wrapped portfolio synchronisation, the           *)
(* checkpoint writes, get_generator's checkpoint resume and the SIGINT     *)
(* shutdown path (interrupt_algorithm).                                    *)
(*                                                                         *)
(* The main thread's position inside handle_data is the variable pc; the   *)
(* signal handler runs on the main thread between any two of its steps,    *)
(* and while a handler frame is active the interrupted code does not       *)
(* advance.  Time is counted in clock ticks (one tick = one minute bar).   *)
(***************************************************************************)
EXTENDS Integers, Sequences, FiniteSets, TLC

\* ---------------------------------------------------------------- bounds
MaxTicks == 3
TicksPerDay == 2
MaxSignals == 2
MaxRestarts == 1
MaxDate == 2

\* ------------------------------------------------------ program constants
\* self.attempts['synchronize_portfolio_attempts']
synchronize_portfolio_attempts == 5
\* self.attempts['get_order_attempts'], ['get_open_orders_attempts'],
\* ['cancel_order_attempts']: the three order operations share one value
order_op_attempts == 5

\* retry_exceptions=(ExchangeRequestError,) at every retry call site
retry_exceptions_all == {"ExchangeRequestError", "FatalError"}
retry_exceptions == {"ExchangeRequestError"}

\* ------------------------------------------------------------ environment
\* self.exchanges, iterated in configuration order
Exchanges == <<"A", "B">>
Assets == {"a1", "b1"}
\* asset.exchange
AssetExchange == [a \in Assets |-> IF a = "a1" THEN "A" ELSE "B"]

\* outcome of one call of a gateway: success, the retryable error kind,
\* or any other error kind
Outcomes == {"ok", "ExchangeRequestError", "FatalError"}
OrderOps == {"get_open_orders", "get_order", "cancel_order"}

NoPos == [amount |-> 0, last_sale_price |-> 0, last_sale_date |-> 0]
NoCkpt == [present |-> FALSE, ending_cash |-> 0, ending_value |-> 0,
           positions |-> [a \in Assets |-> NoPos]]
None == -1
NoRet == <<None, None>>
NoStats == [period_open |-> None, period_close |-> None]

Days == 0 .. (MaxTicks \div TicksPerDay)
\* data.current_dt.floor('1D')
floor1D(t) == t \div TicksPerDay

VARIABLES
    simulate_orders,        \* self.simulate_orders
    has_analyze,            \* self._analyze is not None
    dt,                     \* data.current_dt, the clock's current minute
    pc,                     \* position of the main thread
    is_running,             \* self.is_running
    current_day,            \* self.current_day (None = -1)
    frame_stats,            \* self.frame_stats
    portfolio_needs_update, \* self.portfolio_needs_update
    positions,              \* perf_tracker.position_tracker positions
    cum,                    \* perf_tracker.cumulative_performance
    period,                 \* perf_tracker.todays_performance
    cumStore,               \* algo object 'cumulative_performance'
    dailyStore,             \* algo objects under daily_perf/, by day key
    sp,                     \* retry(synchronize_portfolio) in progress
    sy,                     \* locals of the running synchronize_portfolio
    ret,                    \* cash, positions_value bound in handle_data
    op,                     \* retry(order operation) in progress
    tk,                     \* what the current tick has done so far
    raised,                 \* error that left handle_data, "none" if none
    sd,                     \* shutdown path: handler frames, analysis calls
    restarts,               \* fresh instances constructed so far
    lastWrite,              \* tracker state when line 717 last ran
    fn                      \* a call of one of the helper functions

vars == <<simulate_orders, has_analyze, dt, pc, is_running, current_day,
          frame_stats, portfolio_needs_update, positions, cum, period,
          cumStore, dailyStore, sp, sy, ret, op, tk, raised, sd, restarts,
          lastWrite, fn>>

\* ------------------------------------------------------------ helpers
Last(s) == s[Len(s)]

RECURSIVE SumCash(_)
SumCash(s) == IF s = <<>> THEN 0 ELSE s[1][1] + SumCash(Tail(s))

RECURSIVE SumValue(_)
SumValue(s) == IF s = <<>> THEN 0 ELSE s[1][2] + SumValue(Tail(s))

RECURSIVE NetValue(_, _)
\* position_tracker.stats().net_value: sum of amount * last_sale_price
NetValue(pos, as) ==
    IF as = {} THEN 0
    ELSE LET a == CHOOSE x \in as : TRUE
         IN pos[a].amount * pos[a].last_sale_price + NetValue(pos, as \ {a})

\* self.portfolio.cash (the tracker's cumulative ending cash)
portfolio_cash == cum.ending_cash

\* sim_params.capital_base: enough to open one position in every asset
capital_base == Cardinality(Assets)

\* a PerformanceTracker as get_generator creates it when nothing is resumed
ColdCum == [ending_cash |-> capital_base, ending_value |-> 0]
ColdPeriod == [starting_cash |-> capital_base, starting_value |-> 0]
NoPositions == [a \in Assets |-> NoPos]

\* a retry call: the outcomes of the action's calls so far, the value the
\* action's last call returned and the value retry handed to its caller
NoRetry == [status |-> "idle", outcomes |-> <<>>, value |-> NoRet,
            returned |-> NoRet]
NoSync == [idx |-> 0, total_cash |-> 0, total_positions_value |-> 0,
           reported |-> <<>>, passed |-> <<>>, handed |-> <<>>]
NoTick == [sync |-> "none", cb |-> FALSE, stats |-> FALSE, daily |-> FALSE,
           export |-> "none", cum |-> FALSE, before |-> NoPositions,
           merged |-> {}, cash_before |-> None]
NoShutdown == [handlers |-> 0, signals |-> 0, analyze_calls |-> 0,
               analysis_arg |-> <<>>, reads |-> 0, exit_code |-> None,
               error |-> "none"]

\* values a gateway can report
\* the (cash, positions_value) pairs an exchange can report
GatewayReports == {<<1, 0>>, <<2, 1>>}
\* the amount and last price an exchange reports for a position
GatewayQuotes == {[amount |-> 1, price |-> 1], [amount |-> 2, price |-> 2]}

\* no helper function is being called
NoCall == [name |-> "none", args |-> <<>>, done |-> FALSE, result |-> <<>>]

\* ExchangeTradingAlgorithmLive.__init__ and ExchangeTradingAlgorithmBase
\* .__init__: the in-memory state of a freshly constructed instance
Constructed ==
    /\ pc = "new"
    /\ is_running = TRUE
    /\ current_day = None
    /\ frame_stats = <<>>
    /\ portfolio_needs_update = TRUE
    /\ positions = NoPositions
    /\ cum = ColdCum
    /\ period = ColdPeriod
    /\ sp = NoRetry
    /\ sy = NoSync
    /\ ret = NoRet
    /\ op = NoRetry
    /\ tk = NoTick
    /\ raised = "none"
    /\ sd = NoShutdown

Loaded ==
    /\ simulate_orders \in BOOLEAN
    /\ has_analyze \in BOOLEAN
    /\ dt = 0
    /\ cumStore = NoCkpt
    /\ dailyStore = [d \in Days |-> NoStats]
    /\ restarts = 0
    /\ lastWrite = [ending_cash |-> None, ending_value |-> None,
                    positions |-> NoPositions]
    /\ Constructed

Init == Loaded /\ fn = NoCall

Config == <<simulate_orders, has_analyze, lastWrite, fn>>
Stores == <<cumStore, dailyStore>>
Tracker == <<positions, cum, period>>
Locals == <<sp, sy, ret, op>>

\* the main thread advances only when no signal handler frame is on top of
\* it and the process has not exited
MainRuns == sd.handlers = 0 /\ pc # "exited"

\* lines 494-498: the current period starts from the resumed totals
ResumedPeriodCold(perf) == ColdPeriod
ResumedPeriod(perf) ==
    [starting_cash |-> perf.ending_cash, starting_value |-> perf.ending_value]

\* line 492: tracker.cumulative_performance = perf
ResumedCum(perf) ==
    [ending_cash |-> perf.ending_cash, ending_value |-> perf.ending_value]

\* get_generator: creates the tracker and resumes from the cumulative
\* checkpoint when get_algo_object finds one
get_generator ==
    /\ pc = "new"
    /\ MainRuns
    /\ IF cumStore.present
       THEN /\ cum' = ResumedCum(cumStore)
            /\ period' = ResumedPeriod(cumStore)
            /\ positions' = cumStore.positions
       ELSE /\ cum' = ColdCum
            /\ period' = ColdPeriod
            /\ positions' = NoPositions
    /\ portfolio_needs_update' = TRUE
    /\ pc' = "ready"
    /\ UNCHANGED <<Config, dt, is_running, current_day, frame_stats, Stores,
                   Locals, tk, raised, sd, restarts>>

\* ------------------------------------------------------------ the clock
\* One clock tick: the executor moves the algorithm to the new minute
\* (on_dt_changed marks the portfolio as needing an update) and books the
\* fill the blotter reports, if any (a fill opens a position of one unit of
\* an asset for one unit of cash), then calls handle_data.
on_dt_changed ==
    /\ pc \in {"ready", "idle"}
    /\ MainRuns
    /\ dt < MaxTicks
    /\ dt' = dt + 1
    /\ portfolio_needs_update' = TRUE
    /\ \E fill \in {"none"} \cup Assets :
          IF fill = "none" \/ ~is_running
          THEN UNCHANGED <<positions, cum>>
          ELSE /\ cum.ending_cash > 0
               /\ positions[fill] = NoPos
               /\ positions' = [positions EXCEPT ![fill] =
                      [amount |-> 1, last_sale_price |-> 1,
                       last_sale_date |-> dt']]
               /\ cum' = [cum EXCEPT !.ending_cash = @ - 1]
    /\ pc' = "tick"
    /\ sp' = NoRetry
    /\ op' = NoRetry
    /\ tk' = NoTick
    /\ raised' = "none"
    /\ UNCHANGED <<Config, is_running, current_day, frame_stats, period,
                   Stores, sy, ret, sd, restarts>>

\* ------------------------------------------------------------ retry
\* redo.retry as the call sites use it: the action is called again after an
\* error of a kind in retry_exceptions while fewer than `attempts` calls were
\* made; the error of the last allowed call, and an error of any other kind,
\* is re-raised; a result is returned at once.  n = calls made so far.
RetryDecisionLastFails(n, attempts, outcome) ==
    IF outcome = "ok" /\ n < attempts THEN "return"
    ELSE IF outcome \in retry_exceptions /\ n < attempts THEN "again"
    ELSE "raise"

RetryDecision(n, attempts, outcome) ==
    IF outcome = "ok" THEN "return"
    ELSE IF outcome \in retry_exceptions /\ n < attempts THEN "again"
    ELSE "raise"

\* what the caller of handle_data does with an error that leaves it: the
\* tick is over and the loop waits for the next one
LoopAfterErrorStops(e) ==
    /\ pc' = "exited"
    /\ raised' = e

LoopAfterError(e) ==
    /\ pc' = "idle"
    /\ raised' = e

\* ------------------------------------------------------------ handle_data
\* the steps of handle_data after its guard and the reset of lines 670-676,
\* in the order of its statements: the retry-wrapped synchronisation
\* (689-697), the callback (704-710), _process_stats up to the append
\* (726-737), its frame and daily saves with _save_stats_csv (739-802), the
\* cumulative save (717-723)
handle_data_steps_save_first == <<"sync", "strategy", "cum", "stats", "daily">>
handle_data_steps == <<"sync", "strategy", "stats", "daily", "cum">>

\* the step that follows `step`; handle_data returns after the last one
step_after(step) ==
    LET i == CHOOSE k \in 1 .. Len(handle_data_steps) :
                 handle_data_steps[k] = step
    IN IF i < Len(handle_data_steps) THEN handle_data_steps[i + 1] ELSE "idle"

\* line 675: self.current_day is not None and today > self.current_day
new_day_never(today, day) == FALSE
new_day(today, day) == day # None /\ today > day

\* handle_data up to the start of the retry-wrapped synchronisation
handle_data ==
    /\ pc = "tick"
    /\ MainRuns
    /\ IF ~is_running
       THEN \* line 670: return
            /\ pc' = "idle"
            /\ UNCHANGED <<frame_stats, sp, sy, tk, raised>>
       ELSE /\ frame_stats' =
                  IF new_day(floor1D(dt), current_day)
                  THEN <<>> ELSE frame_stats
            /\ tk' = [NoTick EXCEPT !.before = positions,
                                    !.cash_before = portfolio_cash]
            /\ IF portfolio_needs_update
               THEN /\ sp' = [NoRetry EXCEPT !.status = "running"]
                    /\ sy' = [NoSync EXCEPT !.idx = 1]
                    /\ pc' = handle_data_steps[1]
                    /\ UNCHANGED raised
               ELSE \* cash is unbound at the log.info call of line 699
                    /\ UNCHANGED <<sp, sy>>
                    /\ LoopAfterError("UnboundLocalError")
    /\ UNCHANGED <<ret, op>>
    /\ UNCHANGED <<Config, dt, is_running, current_day,
                   portfolio_needs_update, Tracker, Stores, sd, restarts>>

\* -------------------------------------------------- synchronize_portfolio
\* check_balances = (not self.simulate_orders)
check_balances_always == TRUE
check_balances == ~simulate_orders

\* assets = list(positions): the assets the ledger holds a position for
Held(pos) == {a \in Assets : pos[a] # NoPos}

\* group_assets_by_exchange(assets)[exchange_name], [] when absent
group_assets_by_exchange(assets, ex) == {a \in assets : AssetExchange[a] = ex}

\* copy.deepcopy([positions[asset] for asset in assets if asset in positions])
exchange_positions_all(pos, ex) == [a \in Held(pos) |-> pos[a]]
exchange_positions(pos, ex) ==
    [a \in group_assets_by_exchange(Held(pos), ex) |-> pos[a]]

\* exchange.sync_positions works in place on the list it is handed: the
\* gateway g overwrites the fields of each position with what the exchange
\* reports
sync_positions(ep, g, now) ==
    [a \in DOMAIN ep |-> [amount |-> g.amount, last_sale_price |-> g.price,
                          last_sale_date |-> now]]

\* tracker.update_position(asset, amount, last_sale_date, last_sale_price)
update_position(pos, asset, amount, last_sale_date, last_sale_price) ==
    [pos EXCEPT ![asset] = [amount |-> amount,
                            last_sale_price |-> last_sale_price,
                            last_sale_date |-> last_sale_date]]

RECURSIVE ApplyModifications(_, _, _)
\* for position in exchange_positions: tracker.update_position(...)
ApplyModifications(pos, ep, todo) ==
    IF todo = {} THEN pos
    ELSE LET a == CHOOSE x \in todo : TRUE
         IN ApplyModifications(
                update_position(pos, a, ep[a].amount, ep[a].last_sale_date,
                                ep[a].last_sale_price),
                ep, todo \ {a})

\* total_cash += cash ; total_positions_value += positions_value
AccumulateOverwrite(total, x) == x
Accumulate(total, x) == total + x

\* if not check_balances: total_cash = self.portfolio.cash
\* return total_cash, total_positions_value
SyncResultNoOverride(total_cash, total_positions_value) ==
    <<total_cash, total_positions_value>>
SyncResult(total_cash, total_positions_value) ==
    <<IF ~check_balances THEN portfolio_cash ELSE total_cash,
      total_positions_value>>

\* lines 689-697: no except clause encloses the retry call, so an error
\* that retry re-raises leaves handle_data
sync_error_skipped == FALSE
sync_error_leaves_handle_data == TRUE

\* for exchange_name in self.exchanges
sync_order_reversed == <<Exchanges[2], Exchanges[1]>>
sync_order == Exchanges

\* copy.deepcopy (lines 553-555): the gateway is handed copies, so what it
\* writes into them before it returns or raises does not reach the ledger
ledger_after_gateway_shared(pos, worked) ==
    ApplyModifications(pos, worked, DOMAIN worked)
ledger_after_gateway(pos, worked) == pos

\* line 697 is reached only when retry returns: an error leaves the flag
flag_cleared_before_sync == FALSE
flag_when_sync_raises == portfolio_needs_update

\* the retried call ended with an error: retry calls again or re-raises
SyncCallRaised(e, ledger) ==
    LET outs == Append(sp.outcomes, e)
        d == RetryDecision(Len(outs), synchronize_portfolio_attempts, e)
    IN /\ positions' = ledger
       /\ portfolio_needs_update' = flag_when_sync_raises
       /\ UNCHANGED ret
       /\ IF d = "again"
          THEN /\ sp' = [sp EXCEPT !.outcomes = outs]
               /\ sy' = [NoSync EXCEPT !.idx = 1]
               /\ UNCHANGED <<pc, raised, tk>>
          ELSE /\ sp' = [sp EXCEPT !.status = "raised", !.outcomes = outs]
               /\ sy' = NoSync
               /\ tk' = [tk EXCEPT !.sync = "failed"]
               /\ IF sync_error_leaves_handle_data
                  THEN LoopAfterError(e)
                  ELSE pc' = step_after("sync") /\ UNCHANGED raised

\* the retried call returned: lines 690-697 bind the result
SyncCallReturned(result, newpos, merged, locals) ==
    LET outs == Append(sp.outcomes, "ok")
        d == RetryDecision(Len(outs), synchronize_portfolio_attempts, "ok")
    IN /\ positions' = newpos
       /\ sy' = locals
       /\ IF d = "return"
          THEN /\ sp' = [status |-> "returned", outcomes |-> outs,
                         value |-> result, returned |-> result]
               /\ ret' = result
               /\ portfolio_needs_update' = FALSE
               /\ tk' = [tk EXCEPT !.sync = "ok", !.merged = merged]
               /\ pc' = step_after("sync")
               /\ UNCHANGED raised
          ELSE /\ sp' = [status |-> "raised", outcomes |-> outs,
                         value |-> result, returned |-> NoRet]
               /\ tk' = [tk EXCEPT !.sync = "failed", !.merged = merged]
               /\ UNCHANGED <<ret, portfolio_needs_update>>
               /\ LoopAfterError("RetryError")

\* one turn of the loop over self.exchanges (lines 549-577); after the last
\* exchange the call returns (lines 579-582)
SyncExchange ==
    /\ pc = "sync"
    /\ MainRuns
    /\ LET ex == sync_order[sy.idx]
           ep == exchange_positions(positions, ex)
       IN \E out \in Outcomes :
          IF out # "ok"
          THEN \* the gateway may have worked on the handed list before
               \* it failed
               \E g \in GatewayQuotes :
                  SyncCallRaised(out, ledger_after_gateway(
                                          positions,
                                          sync_positions(ep, g, dt)))
          ELSE \E g \in GatewayQuotes,
                  report \in GatewayReports :
               LET cash == report[1]
                   positions_value == report[2]
                   mutated == sync_positions(ep, g, dt)
                   total_cash == Accumulate(sy.total_cash, cash)
                   total_positions_value ==
                       Accumulate(sy.total_positions_value, positions_value)
                   newpos == ApplyModifications(positions, mutated,
                                                DOMAIN mutated)
                   merged == tk.merged \cup {ex}
                   locals == [idx |-> sy.idx + 1,
                              total_cash |-> total_cash,
                              total_positions_value |-> total_positions_value,
                              reported |-> Append(sy.reported,
                                                  <<cash, positions_value>>),
                              passed |-> Append(sy.passed, check_balances),
                              handed |-> Append(sy.handed,
                                                <<ex, DOMAIN ep>>)]
               IN IF sy.idx < Len(sync_order)
                  THEN /\ positions' = newpos
                       /\ sy' = locals
                       /\ tk' = [tk EXCEPT !.merged = merged]
                       /\ UNCHANGED <<pc, sp, ret, raised,
                                      portfolio_needs_update>>
                  ELSE SyncCallReturned(
                           SyncResult(total_cash, total_positions_value),
                           newpos, merged, locals)
    /\ UNCHANGED <<Config, dt, is_running, current_day, frame_stats, cum,
                   period, Stores, op, sd, restarts>>

\* ------------------------------------------------------ strategy callback
\* values an exchange returns from an order operation
OrderValues == {<<1, 0>>, <<2, 0>>}

\* if self._handle_data: self._handle_data(self, data).  The callback may
\* use one of the retry-wrapped order operations (get_open_orders,
\* get_order, cancel_order); validate_account_controls follows.
StrategyCallback ==
    /\ pc = "strategy"
    /\ MainRuns
    /\ tk' = [tk EXCEPT !.cb = TRUE, !.before = NoPositions,
                        !.cash_before = None, !.merged = {}]
    /\ sp' = NoRetry
    /\ sy' = NoSync
    /\ ret' = NoRet
    /\ \E call \in {"none"} \cup OrderOps :
          IF call = "none"
          THEN /\ pc' = step_after("strategy")
               /\ UNCHANGED op
          ELSE /\ pc' = "order_op"
               /\ op' = [NoRetry EXCEPT !.status = "running"]
    /\ UNCHANGED <<Config, dt, is_running, current_day, frame_stats,
                   portfolio_needs_update, Tracker, Stores, raised, sd,
                   restarts>>

\* one call of the exchange's get_open_orders / get_order / cancel_order
\* under retry (lines 842-848, 868-874, 891-897); an error that retry
\* re-raises leaves the callback and handle_data
OrderOpCall ==
    /\ pc = "order_op"
    /\ MainRuns
    /\ \E out \in Outcomes, v \in OrderValues :
          LET outs == Append(op.outcomes, out)
              d == RetryDecision(Len(outs), order_op_attempts, out)
              val == IF out = "ok" THEN v ELSE op.value
          IN IF d = "again"
             THEN /\ op' = [op EXCEPT !.outcomes = outs]
                  /\ UNCHANGED <<pc, raised>>
             ELSE IF d = "return"
             THEN /\ op' = [status |-> "returned", outcomes |-> outs,
                            value |-> val, returned |-> val]
                  /\ pc' = step_after("strategy")
                  /\ UNCHANGED raised
             ELSE /\ op' = [status |-> "raised", outcomes |-> outs,
                            value |-> val, returned |-> NoRet]
                  /\ LoopAfterError(IF out = "ok" THEN "RetryError" ELSE out)
    /\ UNCHANGED <<Config, dt, is_running, current_day, frame_stats,
                   portfolio_needs_update, Tracker, Stores, sp, sy, ret, tk,
                   sd, restarts>>

\* ------------------------------------------------------------ stats
\* start of the calendar day as a timestamp (today = floor('1D'))
DayStart(day) == day * TicksPerDay

\* perf_tracker.update_performance(): the cached value of the positions is
\* recomputed
update_performance(c, pos) ==
    [c EXCEPT !.ending_value = NetValue(pos, Assets)]

\* prepare_period_stats(start_dt, end_dt) on tracker state c
prepare_period_stats(c, start_dt, end_dt) ==
    [period_open |-> start_dt, period_close |-> end_dt]

\* lines 732-734: the window of the tick's record, from data.current_dt to
\* data.current_dt + timedelta(minutes=1)
frame_window(t) == <<t, t + 1>>

\* lines 762-765: the window of the daily stats, start_dt=today,
\* end_dt=data.current_dt
daily_window_through_tick(t) == <<DayStart(floor1D(t)), t + 1>>
daily_window(t) == <<DayStart(floor1D(t)), t>>

\* positions inside the try block of lines 712-715
TryBlock == {"stats", "daily"}

\* _process_stats, lines 726-737: the tick's record joins frame_stats
ProcessStatsFrame ==
    /\ pc = "stats"
    /\ MainRuns
    /\ cum' = update_performance(cum, positions)
    /\ frame_stats' = Append(frame_stats,
                             prepare_period_stats(cum', frame_window(dt)[1],
                                                  frame_window(dt)[2]))
    /\ tk' = [tk EXCEPT !.stats = TRUE]
    /\ op' = NoRetry
    /\ pc' = step_after("stats")
    /\ UNCHANGED <<Config, dt, is_running, current_day,
                   portfolio_needs_update, positions, period, Stores,
                   sp, sy, ret, raised, sd, restarts>>

\* key=today.strftime('%Y-%m-%d'): one key per calendar day
daily_key_fixed(today) == 0
daily_key(today) == today

\* outcome of the two writers of _save_stats_csv (stats_to_algo_folder,
\* then stats_to_s3 or the ValueError for an unsupported stats_output)
ExportOutcomes == {"ok", "failed"}

\* _process_stats, lines 739-771: the frame saves, then the daily stats are
\* saved under the key of the day; _save_stats_csv follows, whose two
\* writers are each wrapped in their own try/except (lines 778-785 and
\* 787-802), so their errors end there
ProcessStatsDaily ==
    /\ pc = "daily"
    /\ MainRuns
    /\ LET today == floor1D(dt)
       IN dailyStore' = [dailyStore EXCEPT ![daily_key(today)] =
              prepare_period_stats(cum, daily_window(dt)[1],
                                   daily_window(dt)[2])]
    /\ \E out \in ExportOutcomes :
          tk' = [tk EXCEPT !.daily = TRUE, !.export = out]
    /\ pc' = step_after("daily")
    /\ UNCHANGED <<Config, dt, is_running, current_day, frame_stats,
                   portfolio_needs_update, Tracker, cumStore, Locals,
                   raised, sd, restarts>>

\* lines 712-715: except Exception encloses _process_stats and
\* _save_stats_csv
stats_error_escapes == FALSE
stats_error_caught == TRUE

\* an error inside _process_stats (update_performance, a frame save, the
\* daily save) is caught at line 714 and handle_data goes on with line 717
StatsFails ==
    /\ pc \in {"stats", "daily"}
    /\ MainRuns
    /\ IF stats_error_caught
       THEN pc' = step_after("daily") /\ UNCHANGED raised
       ELSE LoopAfterError("StatsError")
    /\ op' = NoRetry
    /\ UNCHANGED <<Config, dt, is_running, current_day, frame_stats,
                   portfolio_needs_update, Tracker, Stores, sp, sy, ret, tk,
                   sd, restarts>>

\* save_algo_object pickles the cumulative performance (with its position
\* tracker) under the given key
CheckpointNoPositions(c, pos) ==
    [present |-> TRUE, ending_cash |-> c.ending_cash,
     ending_value |-> c.ending_value, positions |-> NoPositions]
Checkpoint(c, pos) ==
    [present |-> TRUE, ending_cash |-> c.ending_cash,
     ending_value |-> c.ending_value, positions |-> pos]

\* lines 717-723: the cumulative checkpoint, then current_day; handle_data
\* returns
SaveCumulative ==
    /\ pc = "cum"
    /\ MainRuns
    /\ cumStore' = Checkpoint(cum, positions)
    /\ lastWrite' = [ending_cash |-> cum.ending_cash,
                     ending_value |-> cum.ending_value,
                     positions |-> positions]
    /\ current_day' = floor1D(dt)
    /\ tk' = [tk EXCEPT !.cum = TRUE]
    /\ pc' = step_after("cum")
    /\ UNCHANGED <<simulate_orders, has_analyze, fn, dt, is_running, frame_stats,
                   portfolio_needs_update, Tracker, dailyStore, Locals,
                   raised, sd, restarts>>

\* ------------------------------------------------------------ shutdown
\* files = [f for f in listdir(folder) if isfile(join(folder, f))]
daily_perf_files_today ==
    {d \in Days : dailyStore[d] # NoStats /\ d = floor1D(dt)}
daily_perf_files == {d \in Days : dailyStore[d] # NoStats}

\* the daily_perf folder exists once a daily checkpoint was saved into it;
\* listdir raises OSError when it does not
folder_exists == daily_perf_files # {}

\* daily_perf_list: one unpickled record per file
daily_perf_list == [d \in daily_perf_files |-> dailyStore[d]]

\* sys.exit(0): SystemExit is no Exception, so neither the except clause of
\* line 714 nor retry stops it
Exit(code) ==
    /\ pc' = "exited"
    /\ sd' = [sd EXCEPT !.signals = @ + 1, !.handlers = 0,
                        !.exit_code = code]
    /\ sp' = NoRetry
    /\ sy' = NoSync
    /\ op' = NoRetry
    /\ tk' = NoTick
    /\ raised' = "none"
    /\ ret' = NoRet

\* an OSError raised inside the signal handler surfaces in the interrupted
\* code: inside the try block of lines 712-715 it is caught and handle_data
\* goes on with line 717; anywhere else in handle_data it leaves handle_data;
\* outside handle_data it reaches the loop that drives the clock
HandlerRaises(e) ==
    /\ sd' = [sd EXCEPT !.signals = @ + 1, !.handlers = 0, !.error = e]
    /\ ret' = IF pc = "strategy" THEN NoRet ELSE ret
    /\ IF pc \in TryBlock
       THEN /\ pc' = step_after("daily")
            /\ op' = NoRetry
            /\ UNCHANGED <<sp, sy, tk, raised>>
       ELSE IF pc \in {"new", "ready", "idle"}
       THEN UNCHANGED <<pc, sp, sy, op, tk, raised>>
       ELSE IF pc = "tick"
       THEN /\ pc' = "idle"
            /\ UNCHANGED <<sp, sy, op, tk, raised>>
       ELSE /\ LoopAfterError(e)
            /\ sy' = NoSync
            /\ sp' = IF pc = "sync"
                     THEN [sp EXCEPT !.status = "raised",
                                     !.outcomes = Append(@, e)]
                     ELSE NoRetry
            /\ op' = IF pc = "order_op"
                     THEN [op EXCEPT !.status = "raised",
                                     !.outcomes = Append(@, e)]
                     ELSE op
            /\ tk' = IF pc = "sync" THEN [tk EXCEPT !.sync = "failed"]
                     ELSE tk

\* signal_handler -> interrupt_algorithm, up to the call of self.analyze
interrupt_algorithm ==
    /\ pc # "exited"
    /\ sd.signals < MaxSignals
    /\ is_running' = FALSE
    /\ IF ~has_analyze
       THEN Exit(0)
       ELSE IF ~folder_exists
       THEN HandlerRaises("OSError")
       ELSE /\ sd' = [sd EXCEPT !.signals = @ + 1,
                                !.handlers = @ + 1,
                                !.analyze_calls = @ + 1,
                                !.analysis_arg = daily_perf_list,
                                !.reads = @ + Cardinality(daily_perf_files)]
            /\ UNCHANGED <<pc, sp, sy, ret, op, tk, raised>>
    /\ UNCHANGED <<Config, dt, current_day, frame_stats,
                   portfolio_needs_update, Tracker, Stores, restarts>>

\* self.analyze(stats) returns to the innermost handler frame, which calls
\* sys.exit(0)
AnalysisReturn ==
    /\ pc # "exited"
    /\ sd.handlers > 0
    /\ pc' = "exited"
    /\ sd' = [sd EXCEPT !.handlers = 0, !.exit_code = 0]
    /\ sp' = NoRetry
    /\ sy' = NoSync
    /\ op' = NoRetry
    /\ tk' = NoTick
    /\ raised' = "none"
    /\ ret' = NoRet
    /\ UNCHANGED <<Config, dt, is_running, current_day, frame_stats,
                   portfolio_needs_update, Tracker, Stores, restarts>>

\* ------------------------------------------------------------ restart
\* the process is gone (crash, kill or exit) and a fresh instance is
\* constructed against the same checkpoint store
Restart ==
    /\ pc # "new"
    /\ restarts < MaxRestarts
    /\ restarts' = restarts + 1
    /\ pc' = "new"
    /\ is_running' = TRUE
    /\ current_day' = None
    /\ frame_stats' = <<>>
    /\ portfolio_needs_update' = TRUE
    /\ positions' = NoPositions
    /\ cum' = ColdCum
    /\ period' = ColdPeriod
    /\ sp' = NoRetry
    /\ sy' = NoSync
    /\ ret' = NoRet
    /\ op' = NoRetry
    /\ tk' = NoTick
    /\ raised' = "none"
    /\ sd' = NoShutdown
    /\ UNCHANGED <<Config, dt, Stores>>

Next ==
    \/ get_generator
    \/ on_dt_changed
    \/ handle_data
    \/ SyncExchange
    \/ StrategyCallback
    \/ OrderOpCall
    \/ ProcessStatsFrame
    \/ ProcessStatsDaily
    \/ StatsFails
    \/ SaveCumulative
    \/ interrupt_algorithm
    \/ AnalysisReturn

Spec == Init /\ [][Next]_vars

\* the loop without signals, with restarts of the process
NextRecovery ==
    \/ get_generator
    \/ on_dt_changed
    \/ handle_data
    \/ SyncExchange
    \/ StrategyCallback
    \/ OrderOpCall
    \/ ProcessStatsFrame
    \/ ProcessStatsDaily
    \/ StatsFails
    \/ SaveCumulative
    \/ Restart

\* no signal is delivered here, so whether an analysis callback is
\* configured makes no difference
InitRecovery == Init /\ ~has_analyze

SpecRecovery == InitRecovery /\ [][NextRecovery]_vars

\* ------------------------------------------------------ helper functions
\* timestamps of tracked activity
Dates == 0 .. MaxDate
\* transactions (orders) tracked under one timestamp: none, or two
ActivityCounts == {0, 2}

\* the k-th transaction (order) of a timestamp, and what to_dict() makes of it
Tracked(date, k) == <<date, k>>
to_dict(t) == [dt |-> t[1], id |-> t[2]]

\* period.processed_transactions / period.orders_by_modified: what is
\* tracked under each timestamp, in insertion order
ActivityByDate ==
    {[date \in Dates |-> [k \in 1 .. c[date] |-> Tracked(date, k)]] :
         c \in [Dates -> ActivityCounts]}

\* lines 281 and 288: if start_dt <= date < end_dt
in_window_closed(date, start_dt, end_dt) == start_dt <= date /\ date <= end_dt
in_window(date, start_dt, end_dt) == start_dt <= date /\ date < end_dt

RECURSIVE ToDicts(_)
\* for t in transactions: stats[...].append(t.to_dict())
ToDicts(items) ==
    IF items = <<>> THEN <<>>
    ELSE <<to_dict(Head(items))>> \o ToDicts(Tail(items))

RECURSIVE stats_transactions(_, _, _, _)
\* lines 279-284: stats['transactions'], the timestamps taken in ascending
\* order from `from` on
stats_transactions(processed_transactions, from, start_dt, end_dt) ==
    IF from > MaxDate THEN <<>>
    ELSE (IF in_window(from, start_dt, end_dt)
          THEN ToDicts(processed_transactions[from]) ELSE <<>>)
         \o stats_transactions(processed_transactions, from + 1,
                               start_dt, end_dt)

RECURSIVE stats_orders(_, _, _, _)
\* lines 286-291: stats['orders']
stats_orders(orders_by_modified, from, start_dt, end_dt) ==
    IF from > MaxDate THEN <<>>
    ELSE (IF in_window(from, start_dt, end_dt)
          THEN ToDicts(orders_by_modified[from]) ELSE <<>>)
         \o stats_orders(orders_by_modified, from + 1, start_dt, end_dt)

\* the two activity keys of the record prepare_period_stats returns
period_activity(todays, start_dt, end_dt) ==
    [transactions |-> stats_transactions(todays.processed_transactions, 0,
                                         start_dt, end_dt),
     orders |-> stats_orders(todays.orders_by_modified, 0, start_dt, end_dt)]

\* prepare_period_stats(start_dt, end_dt) with any tracked activity and any
\* window
PrepareCalls ==
    {[name |-> "prepare_period_stats", args |-> <<pt, obm, s, e>>,
      done |-> FALSE, result |-> <<>>] :
         pt \in ActivityByDate, obm \in ActivityByDate,
         s \in 0 .. MaxDate + 1, e \in 0 .. MaxDate + 1}

call_prepare_period_stats ==
    /\ fn.name = "prepare_period_stats"
    /\ ~fn.done
    /\ fn' = [fn EXCEPT !.done = TRUE,
                        !.result = period_activity(
                            [processed_transactions |-> fn.args[1],
                             orders_by_modified |-> fn.args[2]],
                            fn.args[3], fn.args[4])]
    /\ UNCHANGED <<simulate_orders, has_analyze, lastWrite, dt, pc,
                   is_running, current_day, frame_stats,
                   portfolio_needs_update, Tracker, Stores, Locals, tk,
                   raised, sd, restarts>>

\* the activity keys of the two records _process_stats builds at time t:
\* the tick's record (lines 732-734) and the daily stats (lines 762-765)
process_stats_activity(todays, t) ==
    [frame_stats |-> period_activity(todays, frame_window(t)[1],
                                     frame_window(t)[2]),
     daily_stats |-> period_activity(todays, daily_window(t)[1],
                                     daily_window(t)[2])]

\* _process_stats at any tick time with any tracked activity
ProcessStatsCalls ==
    {[name |-> "_process_stats", args |-> <<pt, obm, t>>,
      done |-> FALSE, result |-> <<>>] :
         pt \in ActivityByDate, obm \in ActivityByDate, t \in Dates}

call_process_stats ==
    /\ fn.name = "_process_stats"
    /\ ~fn.done
    /\ fn' = [fn EXCEPT !.done = TRUE,
                        !.result = process_stats_activity(
                            [processed_transactions |-> fn.args[1],
                             orders_by_modified |-> fn.args[2]],
                            fn.args[3])]
    /\ UNCHANGED <<simulate_orders, has_analyze, lastWrite, dt, pc,
                   is_running, current_day, frame_stats,
                   portfolio_needs_update, Tracker, Stores, Locals, tk,
                   raised, sd, restarts>>

\* execution styles a caller can pass; NoStyle stands for style=None
NoStyle == [kind |-> "None", limit_price |-> None, stop_price |-> None]
MarketOrder == [kind |-> "MarketOrder", limit_price |-> None,
                stop_price |-> None]
ExchangeLimitOrder(limit_price) ==
    [kind |-> "ExchangeLimitOrder", limit_price |-> limit_price,
     stop_price |-> None]
StopOrder(stop_price) ==
    [kind |-> "StopOrder", limit_price |-> None, stop_price |-> stop_price]

\* prices an order can carry
Prices == {1, 2}
Styles == {NoStyle, MarketOrder} \cup {ExchangeLimitOrder(p) : p \in Prices}
              \cup {StopOrder(p) : p \in Prices}

\* isinstance(style, cls): the two supported classes are unrelated
isinstance(style, cls) == style.kind = cls

\* truth value of an optional price
Truthy(price) == price # None /\ price # 0

Raise(e) == [raised |-> e, style |-> NoStyle]
Return(style) == [raised |-> "none", style |-> style]

\* __convert_order_params_for_blotter(limit_price, stop_price, style)
convert_order_params_for_blotter(limit_price, stop_price, style) ==
    IF Truthy(stop_price)
    THEN Raise("OrderTypeNotSupported")
    ELSE IF style # NoStyle
    THEN IF limit_price # None
         THEN Raise("ValueError")
         ELSE IF \/ ~isinstance(style, "ExchangeLimitOrder")
                 \/ ~isinstance(style, "MarketOrder")
         THEN Raise("OrderTypeNotSupported")
         ELSE Return(style)
    ELSE IF Truthy(limit_price)
    THEN Return(ExchangeLimitOrder(limit_price))
    ELSE Return(MarketOrder)

\* _calculate_order's call of __convert_order_params_for_blotter
ConvertCalls ==
    {[name |-> "convert_order_params_for_blotter",
      args |-> <<limit_price, stop_price, style>>,
      done |-> FALSE, result |-> <<>>] :
         limit_price \in {None} \cup Prices,
         stop_price \in {None} \cup Prices,
         style \in Styles}

call_convert_order_params_for_blotter ==
    /\ fn.name = "convert_order_params_for_blotter"
    /\ ~fn.done
    /\ fn' = [fn EXCEPT !.done = TRUE,
                        !.result = convert_order_params_for_blotter(
                                       fn.args[1], fn.args[2], fn.args[3])]
    /\ UNCHANGED <<simulate_orders, has_analyze, lastWrite, dt, pc,
                   is_running, current_day, frame_stats,
                   portfolio_needs_update, Tracker, Stores, Locals, tk,
                   raised, sd, restarts>>

\* the helper functions called on a freshly constructed instance
InitCalls ==
    Loaded /\ fn \in PrepareCalls \cup ProcessStatsCalls \cup ConvertCalls

NextCalls ==
    \/ call_prepare_period_stats
    \/ call_process_stats
    \/ call_convert_order_params_for_blotter

SpecCalls == InitCalls /\ [][NextCalls]_vars

\* ------------------------------------------------------------ claims
Retryable == "ExchangeRequestError"

\* the calls of one retry: every call before the last failed with the
\* retryable kind
OnlyLastCallEnds(r) ==
    \A i \in 1 .. Len(r.outcomes) - 1 : r.outcomes[i] = Retryable

RetryRaisesExactly(r, attempts) ==
    /\ Len(r.outcomes) <= attempts
    /\ OnlyLastCallEnds(r)
    /\ r.status = "running" =>
          /\ Len(r.outcomes) < attempts
          /\ \A i \in 1 .. Len(r.outcomes) : r.outcomes[i] = Retryable
    /\ r.status = "raised" =>
          /\ Len(r.outcomes) >= 1
          /\ Last(r.outcomes) # "ok"
          /\ raised = Last(r.outcomes)
          /\ Last(r.outcomes) = Retryable => Len(r.outcomes) = attempts
          /\ r.outcomes[1] # Retryable => Len(r.outcomes) = 1

\* C1: a retry-wrapped action that fails with the retryable error kind on
\* every call is called exactly `attempts` times and the error is then raised
\* to the caller; a call that fails with any other error kind is the last
\* call (an action failing so on its first call is called exactly once) and
\* that error is the one raised.
C1_RetryAttemptsExact ==
    /\ RetryRaisesExactly(sp, synchronize_portfolio_attempts)
    /\ RetryRaisesExactly(op, order_op_attempts)

C1_Witness ==
    /\ sp.status = "raised"
    /\ Len(sp.outcomes) = synchronize_portfolio_attempts
    /\ raised = Retryable

RetryReturnsFirstSuccess(r, attempts) ==
    (r.outcomes # <<>> /\ Last(r.outcomes) = "ok") =>
        /\ r.status = "returned"
        /\ r.returned = r.value
        /\ r.value # NoRet
        /\ Len(r.outcomes) <= attempts
        /\ \A i \in 1 .. Len(r.outcomes) - 1 : r.outcomes[i] = Retryable

\* C2: when a retry-wrapped action fails with the retryable kind on its
\* first k-1 calls and succeeds on call k (1 <= k <= attempts), the wrapper
\* returns the result of call k and the action was called exactly k times.
C2_RetryReturnsSuccess ==
    /\ RetryReturnsFirstSuccess(sp, synchronize_portfolio_attempts)
    /\ RetryReturnsFirstSuccess(op, order_op_attempts)
    /\ sp.status = "returned" => ret = sp.value

C2_Witness ==
    /\ sp.status = "returned"
    /\ Len(sp.outcomes) = synchronize_portfolio_attempts
    /\ ret = sp.value

\* C3: a successful synchronize_portfolio returns as total positions value
\* the sum of the positions_value reported by every configured exchange in
\* that call and, with check_balances true, as total cash the sum of the
\* cash they reported.
C3_TotalsAreSums ==
    sp.status = "returned" =>
        /\ Len(sy.reported) = Len(Exchanges)
        /\ ret[2] = SumValue(sy.reported)
        /\ check_balances => ret[1] = SumCash(sy.reported)

C3_Witness ==
    /\ sp.status = "returned"
    /\ check_balances
    /\ Len(sp.outcomes) > 1
    /\ sy.reported = <<<<1, 0>>, <<2, 1>>>>
    /\ ret = <<3, 1>>

\* C4: in simulated-order mode synchronize_portfolio leaves portfolio.cash
\* as it was when the tick began, whatever cash the gateways report, and the
\* total cash it returns is portfolio.cash.
C4_SimulatedCashUntouched ==
    simulate_orders =>
        /\ tk.cash_before # None => portfolio_cash = tk.cash_before
        /\ sp.status = "returned" => ret[1] = portfolio_cash

C4_Witness ==
    /\ simulate_orders
    /\ sp.status = "returned"
    /\ SumCash(sy.reported) # portfolio_cash
    /\ ret[1] = tk.cash_before

\* C5 as stated: after a tick whose reconciliation failed, every ledger
\* position is as it was before the tick (no partial merge).
C5_NoPartialMerge ==
    tk.sync = "failed" => positions = tk.before

\* C5 as the code has it: after a tick whose reconciliation failed, a ledger
\* position differs from its value before the tick only if sync_positions of
\* its own exchange returned successfully during that tick (in the failing
\* attempt or an earlier one); positions of every other exchange are
\* unchanged.
C5_FailedTickKeepsUnsynced ==
    tk.sync = "failed" =>
        \A a \in Assets :
            positions[a] # tk.before[a] => AssetExchange[a] \in tk.merged

C5_Witness ==
    /\ tk.sync = "failed"
    /\ positions["a1"] # tk.before["a1"]
    /\ positions["b1"] = tk.before["b1"]
    /\ positions["b1"] # NoPos
    /\ tk.merged = {"A"}

\* C6: in a tick whose reconciliation failed, handle_data has surfaced the
\* error and neither the strategy callback nor the stats build nor a
\* checkpoint write of that tick has run; these steps run only after a
\* successful reconciliation.
C6_NoStrategyAfterFailedSync ==
    /\ tk.sync = "failed" =>
          /\ pc = "idle"
          /\ raised # "none"
          /\ ~tk.cb /\ ~tk.stats /\ ~tk.daily /\ ~tk.cum
    /\ (tk.cb \/ tk.stats \/ tk.daily \/ tk.cum) => tk.sync = "ok"
    /\ pc \in {"strategy", "order_op", "stats", "daily", "cum"} =>
          tk.sync = "ok"

C6_Witness ==
    /\ tk.sync = "failed"
    /\ pc = "idle"
    /\ raised = "FatalError"
    /\ sp.outcomes = <<Retryable, "FatalError">>

\* C7: right after get_generator of a fresh instance, when a cumulative
\* checkpoint exists the tracker's cumulative ending_cash, ending_value and
\* positions are those the tracker had when the checkpoint was last written
\* and the current period starts from them; when none exists the instance
\* starts cold, and no error is raised either way.
C7_ResumeReproducesCheckpoint ==
    pc = "ready" =>
        /\ raised = "none"
        /\ IF cumStore.present
           THEN /\ cum.ending_cash = lastWrite.ending_cash
                /\ cum.ending_value = lastWrite.ending_value
                /\ positions = lastWrite.positions
                /\ period.starting_cash = cum.ending_cash
                /\ period.starting_value = cum.ending_value
           ELSE /\ cum = ColdCum
                /\ period = ColdPeriod
                /\ positions = NoPositions

C7_Witness ==
    /\ pc = "ready"
    /\ restarts = 1
    /\ cumStore.present
    /\ positions # NoPositions
    /\ cum.ending_cash < capital_base
    /\ cum.ending_value > 0
    /\ period.starting_value = cum.ending_value

\* C8: however many termination signals arrive, also while the first one's
\* finalization is still running, the analysis callback runs at most once
\* and the process exits with code 0.
C8_AnalysisRunsOnce ==
    /\ sd.analyze_calls <= 1
    /\ pc = "exited" => sd.exit_code = 0

\* C9: once interrupt_algorithm has set is_running to false, no checkpoint
\* (cumulative or daily) is written and the strategy callback is not invoked
\* any more.
C9_NothingAfterShutdown ==
    [][~is_running =>
          /\ cumStore' = cumStore
          /\ dailyStore' = dailyStore
          /\ tk'.cb => tk.cb]_vars

C11_ShutdownErrorsDegrade ==
    /\ sd.error = "none"
    /\ (has_analyze /\ sd.signals > 0) => sd.analyze_calls > 0
    /\ pc = "exited" => sd.exit_code = 0

\* C12: a failure while building, persisting or exporting the stats of a
\* tick never leaves handle_data: the tick goes on to the cumulative
\* checkpoint, and a tick that ran the strategy callback and ended without
\* an error has written the cumulative checkpoint and advanced current_day,
\* whether or not its stats were built, saved and exported.
C12_StatsErrorsContained ==
    /\ raised # "StatsError"
    /\ (pc = "idle" /\ tk.cb /\ raised = "none") =>
          /\ tk.cum
          /\ cumStore.present
          /\ cumStore.ending_cash = cum.ending_cash
          /\ cumStore.ending_value = cum.ending_value
          /\ current_day = floor1D(dt)
    /\ tk.export = "failed" => pc \in {"cum", "idle"} /\ raised = "none"

C12_Witness ==
    /\ pc = "idle"
    /\ tk.cb /\ tk.stats /\ ~tk.daily
    /\ tk.cum
    /\ raised = "none"
    /\ sd.signals = 0
    /\ dt = 2
    /\ current_day = 1

\* C13 as stated: the day-stamped key of a calendar day is written once; a
\* daily checkpoint that exists is never written again.
C13_DailyWriteOnce ==
    [][\A d \in Days :
          dailyStore[d] # NoStats => dailyStore'[d] = dailyStore[d]]_vars

\* C13 as the code has it: the day-stamped key of a calendar day is written
\* only by ticks of that day, each such write replacing it by the stats of
\* the window from the start of the day to the tick; it is never written by
\* a tick of a later day.
C13_DailyKeyWrittenByItsDay ==
    [][\A d \in Days :
          dailyStore'[d] # dailyStore[d] =>
              /\ pc = "daily"
              /\ d = floor1D(dt)
              /\ dailyStore'[d].period_open = d * TicksPerDay
              /\ dailyStore'[d].period_close = dt]_vars

C13_Witness ==
    /\ dailyStore[0] = [period_open |-> 0, period_close |-> 1]
    /\ dailyStore[1] = [period_open |-> TicksPerDay,
                        period_close |-> TicksPerDay + 1]
    /\ tk.daily

\* C14: every tick that handle_data completes while the algorithm is running
\* has written the cumulative checkpoint, and the stored object is the
\* tracker's cumulative performance (cash, value, positions) at the end of
\* the tick; the one key is written only by the save of line 717, after the
\* strategy callback of the tick, and at most once in a tick.
C14_CumulativeWrittenOncePerTick ==
    /\ [](( /\ pc = "idle"
            /\ dt > 0
            /\ is_running
            /\ raised = "none" ) =>
              /\ tk.cb
              /\ tk.cum
              /\ cumStore.present
              /\ cumStore.ending_cash = cum.ending_cash
              /\ cumStore.ending_value = cum.ending_value
              /\ cumStore.positions = positions)
    /\ [][(cumStore' # cumStore \/ (tk'.cum /\ ~tk.cum)) =>
              /\ pc = "cum"
              /\ tk.cb
              /\ ~tk.cum
              /\ tk'.cum
              /\ pc' = "idle"]_vars

C14_Witness ==
    /\ pc = "idle"
    /\ is_running
    /\ dt = 2
    /\ tk.cum
    /\ tk.export = "failed"
    /\ cumStore.positions # NoPositions
    /\ cumStore.ending_value > 0
    /\ cumStore.ending_cash < capital_base

\* C15: while the algorithm is running, from the reset of lines 673-676 to
\* the end of the tick every record of frame_stats has its period_open on
\* the calendar day of the tick being processed, also when the tick before
\* was aborted by an error, and the records are in tick order.
C15_FrameStatsOfToday ==
    (is_running /\ pc \notin {"new", "ready", "tick"}) =>
        /\ \A i \in 1 .. Len(frame_stats) :
              floor1D(frame_stats[i].period_open) = floor1D(dt)
        /\ \A i \in 1 .. Len(frame_stats) - 1 :
              frame_stats[i].period_open < frame_stats[i + 1].period_open

\* the tick before (the first of the new day) was aborted after the tick of
\* the day before had completed
C15_Witness ==
    /\ is_running
    /\ pc = "daily"
    /\ dt = TicksPerDay + 1
    /\ current_day = 0
    /\ frame_stats = <<[period_open |-> dt, period_close |-> dt + 1]>>
    /\ dailyStore[0] # NoStats

\* C16: an error of the reconciliation or of an order operation that leaves
\* handle_data aborts the tick only: the process has not stopped and
\* is_running is still true unless a termination signal was delivered, the
\* clock's next tick is handed to handle_data, and a handle_data call of a
\* running algorithm starts with a reconciliation.
C16_ErrorAbortsTickOnly ==
    /\ [](raised \in Outcomes =>
              /\ pc = "idle"
              /\ sd.signals = 0 => is_running)
    /\ []((pc = "tick" /\ is_running) => portfolio_needs_update)
    /\ [][(raised \in Outcomes /\ dt' # dt) =>
              /\ dt' = dt + 1
              /\ pc' = "tick"
              /\ is_running' = is_running
              /\ raised' = "none"]_vars
    /\ [][(pc = "tick" /\ is_running /\ MainRuns /\ is_running') =>
              (pc' = "sync" /\ sy'.idx = 1 /\ sp'.outcomes = <<>>)]_vars

\* the second tick reconciles after the first was aborted by the error of an
\* order operation (its reconciliation had merged the position of b1)
C16_Witness ==
    /\ pc = "sync"
    /\ dt = 2
    /\ is_running
    /\ sd.signals = 0
    /\ current_day = None
    /\ positions["b1"] = [amount |-> 2, last_sale_price |-> 2,
                          last_sale_date |-> 1]

C18_FrameRecordImpliesDaily ==
    (pc = "idle" /\ tk.stats) => tk.daily

\* the tracked items whose timestamp ts satisfies start_dt <= ts < end_dt
ItemsInWindow(by_date, start_dt, end_dt) ==
    UNION {{[dt |-> ts, id |-> k] : k \in 1 .. Len(by_date[ts])} :
               ts \in {d \in Dates : start_dt <= d /\ d < end_dt}}

ListsExactly(list, items) ==
    /\ {list[i] : i \in 1 .. Len(list)} = items
    /\ Len(list) = Cardinality(items)

C20_OrderStyleValidation ==
    (fn.name = "convert_order_params_for_blotter" /\ fn.done) =>
        LET limit_price == fn.args[1]
            stop_price == fn.args[2]
            style == fn.args[3]
            r == fn.result
        IN IF stop_price # None
           THEN r.raised = "OrderTypeNotSupported"
           ELSE IF style # NoStyle /\ limit_price # None
           THEN r.raised # "none"
           ELSE IF style.kind \in {"MarketOrder", "ExchangeLimitOrder"}
           THEN r = Return(style)
           ELSE IF style # NoStyle
           THEN r.raised = "OrderTypeNotSupported"
           ELSE IF limit_price # None
           THEN r = Return(ExchangeLimitOrder(limit_price))
           ELSE r = Return(MarketOrder)

\* C21: every call of a gateway in synchronize_portfolio was handed exactly
\* the ledger positions whose asset belongs to that exchange, and the step
\* that merges the result of exchange X changes only ledger entries of
\* assets that belong to X.
C21_NoWrongExchange ==
    /\ [](\A i \in 1 .. Len(sy.handed) :
              sy.handed[i][2] =
                  {a \in Assets : /\ positions[a] # NoPos
                                  /\ AssetExchange[a] = sy.handed[i][1]})
    /\ [][pc = "sync" =>
              \A a \in Assets :
                  positions'[a] # positions[a] =>
                      /\ Len(sy'.handed) = Len(sy.handed) + 1
                      /\ AssetExchange[a] = Last(sy'.handed)[1]
                      /\ AssetExchange[a] = Exchanges[sy.idx]]_vars

\* both exchanges hold a position; the sync of A has merged a1 and left b1
C21_Witness ==
    /\ pc = "sync"
    /\ sy.handed = <<<<"A", {"a1"}>>>>
    /\ positions["a1"] = [amount |-> 2, last_sale_price |-> 2,
                          last_sale_date |-> 2]
    /\ positions["b1"] = [amount |-> 2, last_sale_price |-> 2,
                          last_sale_date |-> 1]

\* the order in which the main thread passes through a tick: from the guard
\* into the reconciliation, callback, stats build, daily save, cumulative
\* save; a step is left early only when the tick is aborted (to "idle") or,
\* inside the contained stats block, for the cumulative save
TickOrder ==
    {<<"new", "ready">>, <<"ready", "tick">>, <<"idle", "tick">>,
     <<"tick", "sync">>, <<"tick", "idle">>,
     <<"sync", "strategy">>, <<"sync", "idle">>,
     <<"strategy", "order_op">>, <<"strategy", "stats">>,
     <<"strategy", "idle">>,
     <<"order_op", "stats">>, <<"order_op", "idle">>,
     <<"stats", "daily">>, <<"stats", "cum">>,
     <<"daily", "cum">>,
     <<"cum", "idle">>}

C23_EveryExchangeOnce ==
    /\ sp.status = "returned" =>
          /\ Len(sy.handed) = Len(Exchanges)
          /\ \A i \in 1 .. Len(Exchanges) : sy.handed[i][1] = Exchanges[i]
    /\ pc = "sync" =>
          /\ Len(sy.handed) = sy.idx - 1
          /\ \A i \in 1 .. Len(sy.handed) : sy.handed[i][1] = Exchanges[i]

\* exchange A holds no position and was called with the empty list
C23_Witness ==
    /\ sp.status = "returned"
    /\ sy.handed = <<<<"A", {}>>, <<"B", {"b1"}>>>>
    /\ positions["a1"] = NoPos

\* a call of a gateway has just ended: with an error (one more outcome, not
\* "ok", and no new report), or with a result
GatewayRaised ==
    /\ pc = "sync"
    /\ Len(sp'.outcomes) = Len(sp.outcomes) + 1
    /\ Last(sp'.outcomes) # "ok"

GatewayReturned == pc = "sync" /\ Len(sy'.handed) = Len(sy.handed) + 1

\* C24: the step in which sync_positions of an exchange raises leaves every
\* ledger position as it was, whatever the gateway wrote into the positions
\* it was handed; ledger positions of an exchange change only in the step in
\* which sync_positions of that exchange returns.
C24_DefensiveCopy ==
    /\ [][GatewayRaised => positions' = positions]_vars
    /\ [][pc = "sync" =>
              \A a \in Assets :
                  positions'[a] # positions[a] =>
                      /\ GatewayReturned
                      /\ Last(sy'.handed)[1] = AssetExchange[a]
                      /\ a \in Last(sy'.handed)[2]]_vars

\* the first exchange holds a position and its gateway failed on the first
\* call of the tick: nothing was merged
C24_Witness ==
    /\ tk.sync = "failed"
    /\ sp.outcomes = <<"FatalError">>
    /\ tk.merged = {}
    /\ positions["a1"] # NoPos
    /\ positions = tk.before

\* C25: a tick aborted by a reconciliation failure has left
\* portfolio_needs_update true and has neither appended a record to
\* frame_stats nor written the daily or the cumulative checkpoint, and the
\* stored cumulative checkpoint is the one the last completed tick wrote;
\* from the entry of handle_data to the end of the reconciliation no step
\* advances current_day, writes a checkpoint or appends to frame_stats.
C25_AbortedTickBookkeeping ==
    /\ [](tk.sync = "failed" =>
              /\ pc = "idle"
              /\ portfolio_needs_update
              /\ ~tk.stats /\ ~tk.daily /\ ~tk.cum
              /\ cumStore.present =>
                    /\ cumStore.ending_cash = lastWrite.ending_cash
                    /\ cumStore.ending_value = lastWrite.ending_value
                    /\ cumStore.positions = lastWrite.positions)
    /\ [][(pc \in {"tick", "sync"}) =>
              /\ current_day' = current_day
              /\ cumStore' = cumStore
              /\ dailyStore' = dailyStore
              /\ Len(frame_stats') <= Len(frame_stats)
              /\ (pc = "sync" => frame_stats' = frame_stats)]_vars

\* the first tick of the second day was aborted after the tick of the first
\* day had completed
C25_Witness ==
    /\ tk.sync = "failed"
    /\ raised = Retryable
    /\ dt = TicksPerDay
    /\ current_day = 0
    /\ cumStore.present
    /\ dailyStore[1] = NoStats
    /\ portfolio_needs_update

\* C26: of the two records _process_stats builds at time t on day D, the
\* daily stats list exactly the transactions and orders stamped from the
\* start of D up to but not including t, and the tick's record exactly
\* those stamped from t up to but not including t + 1; no item is in both,
\* and an item stamped at t is in the tick's record and not in the daily
\* stats.
C26_DailyAndTickWindows ==
    (fn.name = "_process_stats" /\ fn.done) =>
        LET processed_transactions == fn.args[1]
            orders_by_modified == fn.args[2]
            t == fn.args[3]
            D == (t \div TicksPerDay) * TicksPerDay
            daily == fn.result.daily_stats
            frame == fn.result.frame_stats
            Items(list) == {list[i] : i \in 1 .. Len(list)}
        IN /\ ListsExactly(daily.transactions,
                   ItemsInWindow(processed_transactions, D, t))
           /\ ListsExactly(daily.orders,
                   ItemsInWindow(orders_by_modified, D, t))
           /\ ListsExactly(frame.transactions,
                   ItemsInWindow(processed_transactions, t, t + 1))
           /\ ListsExactly(frame.orders,
                   ItemsInWindow(orders_by_modified, t, t + 1))
           /\ Items(daily.transactions) \cap Items(frame.transactions) = {}
           /\ Items(daily.orders) \cap Items(frame.orders) = {}
           /\ \A x \in Items(daily.transactions) \cup Items(daily.orders) :
                  x.dt # t
           /\ \A k \in 1 .. Len(processed_transactions[t]) :
                  [dt |-> t, id |-> k] \in Items(frame.transactions)

\* activity under every timestamp: the daily stats of the second tick of a
\* day hold the first tick's, the tick's record its own
C26_Witness ==
    /\ fn.name = "_process_stats"
    /\ fn.done
    /\ fn.args[3] = 1
    /\ \A ts \in Dates : Len(fn.args[1][ts]) = 2 /\ Len(fn.args[2][ts]) = 2
    /\ fn.result.daily_stats.transactions =
           <<[dt |-> 0, id |-> 1], [dt |-> 0, id |-> 2]>>
    /\ fn.result.frame_stats.transactions =
           <<[dt |-> 1, id |-> 1], [dt |-> 1, id |-> 2]>>
    /\ fn.result.frame_stats.orders = fn.result.frame_stats.transactions

====
